---------------------------- MODULE Spec2Model ----------------------------
(***************************************************************************)
(* A model of the nRF24L01+ driver (package nrf24l01): the command and     *)
(* register layer on a byte transport, and the Enhanced ShockBurst         *)
(* configuration calls built on it.                                        *)
(*                                                                         *)
(* The driver only produces bus traffic (chip-select edges and bytes);     *)
(* the chip is a register file that decodes each chip-select framed        *)
(* transaction.  Every driver call is one action; the handler itself is    *)
(* an operator from a machine record m to a record [m, ret].               *)
(*                                                                         *)
(* The bit-banged transport BBSPI (softspi.go) is modelled at the level of *)
(* its three pins: bbspi holds the clock and data-out levels and the Delay *)
(* field, bblast the last BBSPI call with the pin events it produced.      *)
(***************************************************************************)
EXTENDS Integers, Sequences, FiniteSets, TLC

VARIABLES regs, d, ce, csn, log, last, calls, bbspi, bblast

vars == <<regs, d, ce, csn, log, last, calls, bbspi, bblast>>

(***************************************************************************)
(* Bounds of the model.                                                    *)
(***************************************************************************)
\* pipe arguments are drawn from 0..MaxPipeArg (0..5 are the chip's pipes)
MaxPipeArg == 6
\* CRC length arguments are drawn from 0..MaxCRCArg
MaxCRCArg == 3
\* number of calls in a run of the specification of all operations
MaxCalls == 2
\* pipe arguments of the runs of any length are drawn from 0..MaxPipeESB
MaxPipeESB == 3
\* retry count and retry delay arguments are drawn from 0..MaxRetryArg and 255
MaxRetryArg == 16
\* the slices given to BBSPI.Tx hold 0..MaxTxLen bytes
MaxTxLen == 2
\* channel arguments of the runs of any length are drawn from
\* (125 - ChannelSpan)..(125 + ChannelSpan) and from ChannelArgs
ChannelSpan == 2
\* calls of operations other than PowerDown and PowerUp in a run of power calls
MaxPwrCalls == 1

(***************************************************************************)
(* Byte arithmetic (Go's byte is 8 bits wide).                             *)
(***************************************************************************)
Byte == 0..255

Pow2(n) == 2^n

Bit(x, b) == (x \div Pow2(b)) % 2

RECURSIVE AndN(_, _, _)
AndN(x, y, n) ==
    IF n = 0 THEN 0
    ELSE (x % 2) * (y % 2) + 2 * AndN(x \div 2, y \div 2, n - 1)

\* x & y, tabulated over the bytes
AndTable == [x \in Byte |-> [y \in Byte |-> AndN(x, y, 8)]]

BitAnd(x, y) == AndTable[x][y]

\* ^x on a byte
BitNot(x) == 255 - x

\* x | y
BitOr(x, y) == x + y - BitAnd(x, y)

\* x &^ y
BitAndNot(x, y) == BitAnd(x, BitNot(y))

\* x << n on a byte
Shl(x, n) == (x * Pow2(n)) % 256

\* x >> n on a byte
Shr(x, n) == x \div Pow2(n)

(***************************************************************************)
(* registers.go: commands, register addresses, masks and bit numbers.      *)
(***************************************************************************)
R_REGISTER == 0
W_REGISTER == 32
REGISTER_MASK == 31
W_ACK_PAYLOAD == 168
R_RX_PAYLOAD == 97
W_TX_PAYLOAD == 160
FLUSH_TX == 225
FLUSH_RX == 226
R_RX_PL_WID == 96
W_TX_PAYLOAD_NOACK == 176
NOOP == 255

CONFIG == 0
CONFIG_MASK == 127
EN_CRC == 3
CRCO == 2
PWR_UP == 1

EN_AA == 1
EN_AA_MASK == 63

SETUP_AW == 3
SETUP_AW_MASK == 3

SETUP_RETR == 4
ARD == 4
ARC == 0

RF_CH == 5
RF_CH_MASK == 127

STATUS == 7
STATUS_MASK == 127
RX_P_NO == 1

RX_ADDR_P0 == 10
RX_ADDR_P1 == 11
RX_ADDR_P5 == 15
TX_ADDR == 16
RX_PW_P0 == 17
RX_PW_P5 == 22
RX_PW_MASK == 63

DYNPD == 28
DYNPD_MASK == 63

FEATURE == 29
FEATURE_MASK == 7
EN_DPL == 2
EN_ACK_PAY == 1

(***************************************************************************)
(* The chip: a register file behind the bus.                               *)
(***************************************************************************)
\* the registers the model keeps
RegAddrs ==
    {CONFIG, EN_AA, SETUP_AW, SETUP_RETR, RF_CH, STATUS, TX_ADDR, DYNPD, FEATURE}
        \cup (RX_ADDR_P0..RX_ADDR_P5) \cup (RX_PW_P0..RX_PW_P5)

\* bytes held by a register: pipes 0 and 1 and the TX address hold five
RegWidth(a) == IF a \in {RX_ADDR_P0, RX_ADDR_P1, TX_ADDR} THEN 5 ELSE 1

\* the writable bits of a register
RegMask(a) ==
    CASE a = CONFIG -> CONFIG_MASK
      [] a = EN_AA -> EN_AA_MASK
      [] a = SETUP_AW -> SETUP_AW_MASK
      [] a = RF_CH -> RF_CH_MASK
      [] a = STATUS -> STATUS_MASK
      [] a \in RX_PW_P0..RX_PW_P5 -> RX_PW_MASK
      [] a = DYNPD -> DYNPD_MASK
      [] a = FEATURE -> FEATURE_MASK
      [] OTHER -> 255

\* a register after the data bytes ds of a write: the bytes sent replace the
\* first bytes of the register, each cut to the register's writable bits
ChipStore(old, a, ds) ==
    [i \in 1..RegWidth(a) |->
        IF i <= Len(ds) THEN BitAnd(ds[i], RegMask(a)) ELSE old[i]]

\* the register file after the transaction whose bytes are frame
ChipExec(rf, frame) ==
    IF Len(frame) = 0 THEN rf
    ELSE LET command == frame[1]
             a == BitAnd(command, REGISTER_MASK)
         IN  IF command \in W_REGISTER..(W_REGISTER + REGISTER_MASK) /\ a \in RegAddrs
             THEN [rf EXCEPT ![a] = ChipStore(rf[a], a, Tail(frame))]
             ELSE rf

\* the byte the chip shifts out while the driver shifts in the next byte of
\* a transaction of which frame has been sent: STATUS with the command byte,
\* then the bytes of the register a read command names
ChipOut(rf, frame) ==
    IF Len(frame) = 0 THEN rf[STATUS][1]
    ELSE LET command == frame[1]
             a == BitAnd(command, REGISTER_MASK)
             k == Len(frame)
         IN  IF command \in R_REGISTER..(R_REGISTER + REGISTER_MASK)
                  /\ a \in RegAddrs /\ k <= RegWidth(a)
             THEN rf[a][k]
             ELSE 0

\* the register file after power-on reset
ResetRegs ==
    [a \in RegAddrs |->
        CASE a = CONFIG -> <<8>>
          [] a = EN_AA -> <<0>>
          [] a = SETUP_AW -> <<3>>
          [] a = SETUP_RETR -> <<3>>
          [] a = RF_CH -> <<2>>
          [] a = STATUS -> <<14>>
          [] a = RX_ADDR_P0 -> <<231, 231, 231, 231, 231>>
          [] a = RX_ADDR_P1 -> <<194, 194, 194, 194, 194>>
          [] a \in (RX_ADDR_P1 + 1)..RX_ADDR_P5 -> <<195 + (a - RX_ADDR_P1 - 1)>>
          [] a = TX_ADDR -> <<231, 231, 231, 231, 231>>
          [] OTHER -> <<0>>]

\* the packet at the head of the chip's RX FIFO: the width the chip reports
\* for it and its bytes; the empty FIFO reports width 0
NoPacket == [wid |-> 0, data |-> <<>>]

\* the byte the chip shifts out after the k bytes of frame, for the commands
\* that read the RX FIFO: the payload width, or the next byte of the payload
ChipRxOut(rx, frame) ==
    LET command == frame[1]
        k == Len(frame)
    IN  IF command = R_RX_PL_WID /\ k = 1 THEN rx.wid
        ELSE IF command = R_RX_PAYLOAD /\ k <= Len(rx.data) THEN rx.data[k]
        ELSE 0

\* the RX FIFO after the transaction whose bytes are frame: a payload is
\* deleted once it is read, FLUSH_RX empties the FIFO
ChipRxExec(rx, frame) ==
    IF Len(frame) > 0 /\ frame[1] \in {R_RX_PAYLOAD, FLUSH_RX} THEN NoPacket ELSE rx

(***************************************************************************)
(* The machine a handler runs on: the chip's registers, the Device's       *)
(* fields, the two control lines, the bytes of the transaction in          *)
(* progress, the bus events of the call so far and the packet at the head  *)
(* of the RX FIFO.                                                         *)
(***************************************************************************)
\* Device{bus: bus, csn: csn, ce: ce}: every other field is Go's zero value
NewDevice ==
    [addressWidth |-> 0,
     address |-> <<0, 0, 0, 0, 0>>,
     channel |-> 0,
     payloadLength |-> 0,
     compatModeEnabled |-> FALSE,
     dinamicPayloadEnabled |-> 0,
     autoAckEnabled |-> 0]

Machine == [regs |-> regs, d |-> d, ce |-> ce, csn |-> csn,
            frame |-> <<>>, log |-> <<>>, rx |-> NoPacket]

\* d.csn.Low(): a new transaction starts
CsnLow(m) == [m EXCEPT !.csn = 0, !.frame = <<>>, !.log = Append(@, <<"csn", 0>>)]

\* d.csn.High(): the chip executes the transaction
CsnHigh(m) ==
    [m EXCEPT !.csn = 1,
              !.regs = IF m.csn = 0 THEN ChipExec(@, m.frame) ELSE @,
              !.rx = IF m.csn = 0 THEN ChipRxExec(@, m.frame) ELSE @,
              !.frame = <<>>,
              !.log = Append(@, <<"csn", 1>>)]

CeLow(m) == [m EXCEPT !.ce = 0, !.log = Append(@, <<"ce", 0>>)]

\* d.bus.Transfer(b): the byte read back, and the machine after it
TransferReply(m, b) ==
    IF m.csn # 0 THEN 0
    ELSE IF Len(m.frame) > 0 /\ m.frame[1] \in {R_RX_PL_WID, R_RX_PAYLOAD}
         THEN ChipRxOut(m.rx, m.frame)
         ELSE ChipOut(m.regs, m.frame)

Transfer(m, b) ==
    [m EXCEPT !.frame = IF m.csn = 0 THEN Append(@, b) ELSE @,
              !.log = Append(@, <<"xfer", b>>)]

\* d.bus.Tx(w, nil): write only
RECURSIVE TxWrite(_, _)
TxWrite(m, w) ==
    IF Len(w) = 0 THEN m ELSE TxWrite(Transfer(m, Head(w)), Tail(w))

\* the bytes read back while the bytes of w are sent
RECURSIVE TxReadVal(_, _)
TxReadVal(m, w) ==
    IF Len(w) = 0 THEN <<>>
    ELSE <<TransferReply(m, Head(w))>> \o TxReadVal(Transfer(m, Head(w)), Tail(w))

\* a Go slice: nil, or the bytes it holds
NilSlice == [isnil |-> TRUE, elems |-> <<>>]

Slice(s) == [isnil |-> FALSE, elems |-> s]

\* n zero bytes
Zeros(n) == [i \in 1..n |-> 0]

ErrTxInvalidSliceSize == "SPI write and read slices must be same size"

\* d.bus.Tx(w, r): the machine after it, the error and the slice r after it
Tx(m, w, r) ==
    IF w.isnil
    THEN [m |-> TxWrite(m, Zeros(Len(r.elems))), err |-> "nil",
          r |-> [r EXCEPT !.elems = TxReadVal(m, Zeros(Len(r.elems)))]]
    ELSE IF r.isnil
    THEN [m |-> TxWrite(m, w.elems), err |-> "nil", r |-> r]
    ELSE IF Len(w.elems) # Len(r.elems)
    THEN [m |-> m, err |-> ErrTxInvalidSliceSize, r |-> r]
    ELSE [m |-> TxWrite(m, w.elems), err |-> "nil",
          r |-> Slice(TxReadVal(m, w.elems))]

(***************************************************************************)
(* 8. Data and control interface.                                          *)
(***************************************************************************)
\* SendCommand(command, data, nil)
SendCommand(m, command, data) ==
    CsnHigh(TxWrite(Transfer(CsnLow(m), command), data))

\* SendCommand returning the transport's error with chip-select still low
SendCommandTx_ReturnOnError(m, command, data, response) ==
    LET m1 == CsnLow(m)
        t == Tx(Transfer(m1, command), data, response)
    IN  [m |-> IF t.err = "nil" THEN CsnHigh(t.m) ELSE t.m,
         status |-> TransferReply(m1, command),
         err |-> t.err, response |-> t.r]

\* SendCommand(command, data, response) on any two slices: the machine after
\* it, the status byte and the error it returns, and response after it
SendCommandTx(m, command, data, response) ==
    LET m1 == CsnLow(m)
        t == Tx(Transfer(m1, command), data, response)
    IN  [m |-> CsnHigh(t.m), status |-> TransferReply(m1, command),
         err |-> t.err, response |-> t.r]

\* ReadRegister(register, into) returns the status byte; into is returned too
ReadRegister(m, register, into) ==
    LET s == SendCommandTx(m, BitOr(R_REGISTER, BitAnd(REGISTER_MASK, register)),
                           NilSlice, Slice(into))
    IN  [m |-> s.m, ret |-> [status |-> s.status, into |-> s.response.elems]]

\* the value ReadRegisterByte returns
ReadRegisterByteVal(m, register) ==
    LET command == BitOr(R_REGISTER, BitAnd(REGISTER_MASK, register))
        m1 == Transfer(CsnLow(m), command)
    IN  TransferReply(m1, NOOP)

\* the machine after ReadRegisterByte
ReadRegisterByte(m, register) ==
    LET command == BitOr(R_REGISTER, BitAnd(REGISTER_MASK, register))
    IN  CsnHigh(Transfer(Transfer(CsnLow(m), command), NOOP))

WriteRegister(m, register, data) ==
    SendCommand(m, BitOr(W_REGISTER, BitAnd(REGISTER_MASK, register)), data)

WriteRegisterByte(m, register, value) ==
    LET command == BitOr(W_REGISTER, BitAnd(REGISTER_MASK, register))
    IN  CsnHigh(Transfer(Transfer(CsnLow(m), command), value))

\* UpdateRegister without clearing the bits of mask
UpdateRegisterVal_NoClear(m, register, value, mask) ==
    BitOr(ReadRegisterByteVal(m, register), value)

\* the byte UpdateRegister writes and returns
UpdateRegisterVal(m, register, value, mask) ==
    BitOr(BitAndNot(ReadRegisterByteVal(m, register), mask), value)

\* the machine after UpdateRegister
UpdateRegister(m, register, value, mask) ==
    WriteRegisterByte(ReadRegisterByte(m, register), register,
                      UpdateRegisterVal(m, register, value, mask))

WriteRegisterBitVal(m, register, bit, value) ==
    UpdateRegisterVal(m, register, Shl(value, bit), Shl(1, bit))

WriteRegisterBit(m, register, bit, value) ==
    UpdateRegister(m, register, Shl(value, bit), Shl(1, bit))

SetRegisterBit(m, register, bit) == WriteRegisterBit(m, register, bit, 1)

ClearRegisterBitVal(m, register, bit) == WriteRegisterBitVal(m, register, bit, 0)

ClearRegisterBit(m, register, bit) == WriteRegisterBit(m, register, bit, 0)

(***************************************************************************)
(* softspi.go: the bit-banged transport.  t holds the levels of SCK and    *)
(* SDO, the Delay field, the peer that drives SDI and the pin events so    *)
(* far: <<"SDO", v>> and <<"SCK", v>> for a level set, <<"SDI", v>> for a  *)
(* level read.                                                             *)
(***************************************************************************)
SCKSet(t, v) == [t EXCEPT !.SCK = v, !.trace = Append(@, <<"SCK", v>>)]

SDOSet(t, v) == [t EXCEPT !.SDO = v, !.trace = Append(@, <<"SDO", v>>)]

\* s.SDI.Get() during bit i of a byte: a loopback peer wires SDO to SDI, any
\* other peer shifts its byte out most significant bit first
SDIGet(t, i) == IF t.peer.loop THEN t.SDO ELSE Bit(t.peer.byte, 7 - i)

\* s.Configure()
BBSPI_Configure(t) ==
    [SDOSet(SCKSet(t, 0), 0) EXCEPT !.Delay = IF @ = 0 THEN 1 ELSE @]

\* the loop of Transfer sending the least significant bit first
RECURSIVE TransferBits_LSBFirst(_, _, _, _)
TransferBits_LSBFirst(t, b, i, r) ==
    IF i = 8 THEN [t |-> t, r |-> r]
    ELSE LET t1 == SCKSet(SDOSet(t, Bit(b, i)), 1)
             in == SDIGet(t1, 7 - i)
             t2 == [t1 EXCEPT !.trace = Append(@, <<"SDI", in>>)]
         IN  TransferBits_LSBFirst(SCKSet(t2, 0), b, i + 1,
                                   IF in = 1 THEN BitOr(r, Shl(1, i)) ELSE r)

\* the loop of Transfer from bit i on, r the byte read so far; delay()
\* changes no pin
RECURSIVE TransferBits(_, _, _, _)
TransferBits(t, b, i, r) ==
    IF i = 8 THEN [t |-> t, r |-> r]
    ELSE LET t1 == SCKSet(SDOSet(t, IF BitAnd(b, Shl(1, 7 - i)) = 0 THEN 0 ELSE 1), 1)
             in == SDIGet(t1, i)
             t2 == [t1 EXCEPT !.trace = Append(@, <<"SDI", in>>)]
         IN  TransferBits(SCKSet(t2, 0), b, i + 1,
                          IF in = 1 THEN BitOr(r, Shl(1, 7 - i)) ELSE r)

\* Transfer sending and storing the least significant bit first
BBSPI_Transfer_LSBFirst(t, b) == TransferBits_LSBFirst(t, b, 0, 0)

\* s.Transfer(b): the pins after it and the byte read
BBSPI_Transfer(t, b) == TransferBits(t, b, 0, 0)

\* the bytes of ws transferred in turn, rs the bytes read so far
RECURSIVE TransferAll(_, _, _)
TransferAll(t, ws, rs) ==
    IF Len(ws) = 0 THEN [t |-> t, r |-> rs]
    ELSE LET x == BBSPI_Transfer(t, Head(ws))
         IN  TransferAll(x.t, Tail(ws), Append(rs, x.r))

\* BBSPI.Tx comparing the lengths only after the bytes they share are sent
BBSPI_Tx_TransferThenCheck(t, w, r) ==
    IF w.isnil
    THEN LET x == TransferAll(t, Zeros(Len(r.elems)), <<>>)
         IN  [t |-> x.t, err |-> "nil", r |-> [r EXCEPT !.elems = x.r]]
    ELSE IF r.isnil
    THEN [t |-> TransferAll(t, w.elems, <<>>).t, err |-> "nil", r |-> r]
    ELSE LET n == IF Len(w.elems) < Len(r.elems) THEN Len(w.elems) ELSE Len(r.elems)
             x == TransferAll(t, SubSeq(w.elems, 1, n), <<>>)
         IN  IF Len(w.elems) # Len(r.elems)
             THEN [t |-> x.t, err |-> ErrTxInvalidSliceSize,
                   r |-> Slice(x.r \o SubSeq(r.elems, n + 1, Len(r.elems)))]
             ELSE [t |-> x.t, err |-> "nil", r |-> Slice(x.r)]

\* s.Tx(w, r): the pins after it, the error and the slice r after it
BBSPI_Tx(t, w, r) ==
    IF w.isnil
    THEN LET x == TransferAll(t, Zeros(Len(r.elems)), <<>>)
         IN  [t |-> x.t, err |-> "nil", r |-> [r EXCEPT !.elems = x.r]]
    ELSE IF r.isnil
    THEN [t |-> TransferAll(t, w.elems, <<>>).t, err |-> "nil", r |-> r]
    ELSE IF Len(w.elems) # Len(r.elems)
    THEN [t |-> t, err |-> ErrTxInvalidSliceSize, r |-> r]
    ELSE LET x == TransferAll(t, w.elems, <<>>)
         IN  [t |-> x.t, err |-> "nil", r |-> Slice(x.r)]

(***************************************************************************)
(* What a call returns.                                                    *)
(***************************************************************************)
Nil == "nil"
ErrNRF24InvalidConfig == "NRF24 Invalid configuration"
ErrNRF24InvalidPipe == "NRF24 Invalid pipe, valid pipes go from 0 to 5"
ErrNRF24InvalidAddressLength == "NRF24 Invalid address length"
\* a Go run-time panic (index out of range)
Panic == "panic"

Ret(m, r) == [m |-> m, ret |-> r]

\* a call without a result
Void == "void"

(***************************************************************************)
(* Configure and 6. Radio control.                                         *)
(***************************************************************************)
MinInt(x, y) == IF x < y THEN x ELSE y

MaxInt(x, y) == IF x > y THEN x ELSE y

\* copy(d.address[:], address): the array after it
CopyAddress(old, address) ==
    [i \in 1..5 |-> IF i <= Len(address) THEN address[i] ELSE old[i]]

\* Configure(cfg) with cfg.Address = address and cfg.Channel = channel
Configure(m, address, channel) ==
    LET m1 == CsnHigh(CeLow(m))
    IN  Ret([m1 EXCEPT !.d.addressWidth = MinInt(5, Len(address)),
                       !.d.address = CopyAddress(@, address),
                       !.d.channel = channel],
            Nil)

Status(m) == Ret(CsnHigh(Transfer(CsnLow(m), NOOP)), TransferReply(CsnLow(m), NOOP))

\* PowerDown without chip-enable driven low
PowerDown_KeepCE(m) == Ret(ClearRegisterBit(m, CONFIG, PWR_UP), Void)

PowerDown(m) == Ret(ClearRegisterBit(CeLow(m), CONFIG, PWR_UP), Void)

PowerUp(m) == Ret(SetRegisterBit(m, CONFIG, PWR_UP), Void)

\* SetChannel without the clamp of its argument
SetChannel_NoClamp(m, channel) == Ret(WriteRegisterByte(m, RF_CH, channel), Void)

SetChannel(m, channel) == Ret(WriteRegisterByte(m, RF_CH, MinInt(channel, 125)), Void)

Channel(m) == Ret(ReadRegisterByte(m, RF_CH), ReadRegisterByteVal(m, RF_CH))

(***************************************************************************)
(* 7. Enhanced ShockBurst.                                                 *)
(***************************************************************************)
\* SetRXAddress checking the address length only after the register write
SetRXAddress_WriteThenCheck(m, pipe, address) ==
    IF pipe > 5 THEN Ret(m, ErrNRF24InvalidPipe)
    ELSE LET reg == RX_ADDR_P0 + pipe
             m1 == WriteRegister(m, reg, address)
         IN  IF pipe <= 1
             THEN IF Len(address) < m.d.addressWidth
                  THEN Ret(m1, ErrNRF24InvalidAddressLength)
                  ELSE Ret(WriteRegister(m, reg, SubSeq(address, 1, m.d.addressWidth)),
                           Nil)
             ELSE IF Len(address) = 0
                  THEN Ret(m, Panic)
                  ELSE Ret(WriteRegisterByte(m, reg, address[1]), Nil)

SetRXAddress(m, pipe, address) ==
    IF pipe > 5 THEN Ret(m, ErrNRF24InvalidPipe)
    ELSE LET reg == RX_ADDR_P0 + pipe
         IN  IF pipe <= 1
             THEN IF Len(address) < m.d.addressWidth
                  THEN Ret(m, ErrNRF24InvalidAddressLength)
                  ELSE Ret(WriteRegister(m, reg, SubSeq(address, 1, m.d.addressWidth)),
                           Nil)
             \* address[0] of an empty slice panics before the bus is touched
             ELSE IF Len(address) = 0
                  THEN Ret(m, Panic)
                  ELSE Ret(WriteRegisterByte(m, reg, address[1]), Nil)

\* SetAddressWidth caching the width as given
SetAddressWidth_UnclampedCache(m, width) ==
    LET w == MinInt(MaxInt(width, 3), 5)
    IN  Ret(WriteRegisterByte([m EXCEPT !.d.addressWidth = width], SETUP_AW, w - 2),
            Void)

SetAddressWidth(m, width) ==
    LET w == MinInt(MaxInt(width, 3), 5)
    IN  Ret(WriteRegisterByte([m EXCEPT !.d.addressWidth = w], SETUP_AW, w - 2),
            Void)

SetTXAddress(m, address) ==
    IF Len(address) < m.d.addressWidth
    THEN Ret(m, ErrNRF24InvalidAddressLength)
    ELSE Ret(WriteRegister(m, TX_ADDR, address), Nil)

SetAutoAck(m, pipe, enable) ==
    IF m.d.compatModeEnabled THEN Ret(m, ErrNRF24InvalidConfig)
    ELSE IF pipe > 5 THEN Ret(m, ErrNRF24InvalidPipe)
    ELSE IF enable
         THEN Ret([SetRegisterBit(m, EN_AA, pipe) EXCEPT
                      !.d.autoAckEnabled = BitOr(@, Shl(1, pipe))],
                  Nil)
         ELSE Ret([ClearRegisterBit(m, EN_AA, pipe) EXCEPT
                      !.d.autoAckEnabled = BitAndNot(@, Shl(1, pipe))],
                  Nil)

\* SetDynamicPayload without the call of SetAutoAck
SetDynamicPayload_NoAutoAck(m, pipe, enable) ==
    IF pipe > 5 THEN Ret(m, ErrNRF24InvalidPipe)
    ELSE IF enable
         THEN Ret(SetRegisterBit(SetRegisterBit(m, FEATURE, EN_DPL), DYNPD, pipe), Nil)
         ELSE LET rval == ClearRegisterBitVal(m, DYNPD, pipe)
                  m1 == ClearRegisterBit(m, DYNPD, pipe)
              IN  Ret(IF rval = 0 THEN ClearRegisterBit(m1, FEATURE, EN_DPL) ELSE m1,
                      Nil)

\* SetDynamicPayload clearing EN_DPL on every disable
SetDynamicPayload_AlwaysClearDPL(m, pipe, enable) ==
    IF pipe > 5 THEN Ret(m, ErrNRF24InvalidPipe)
    ELSE IF enable
         THEN LET m1 == SetRegisterBit(m, FEATURE, EN_DPL)
                  m2 == SetAutoAck(m1, pipe, TRUE).m
              IN  Ret(SetRegisterBit(m2, DYNPD, pipe), Nil)
         ELSE Ret(ClearRegisterBit(ClearRegisterBit(m, DYNPD, pipe), FEATURE, EN_DPL),
                  Nil)

SetDynamicPayload(m, pipe, enable) ==
    IF pipe > 5 THEN Ret(m, ErrNRF24InvalidPipe)
    ELSE IF enable
         THEN LET m1 == SetRegisterBit(m, FEATURE, EN_DPL)
                  \* the error SetAutoAck may return is dropped
                  m2 == SetAutoAck(m1, pipe, TRUE).m
              IN  Ret(SetRegisterBit(m2, DYNPD, pipe), Nil)
         ELSE LET rval == ClearRegisterBitVal(m, DYNPD, pipe)
                  m1 == ClearRegisterBit(m, DYNPD, pipe)
              IN  Ret(IF rval = 0 THEN ClearRegisterBit(m1, FEATURE, EN_DPL) ELSE m1,
                      Nil)

\* register := RX_ADDR_P0 + pipe, as the source has it
SetPayloadLength(m, pipe, len) ==
    IF pipe > 5 THEN Ret(m, ErrNRF24InvalidPipe)
    ELSE Ret(WriteRegisterByte(m, RX_ADDR_P0 + pipe, len), Nil)

\* SetCRCLength without the compatibility mode check
SetCRCLength_NoCompatCheck(m, len) ==
    LET mask == BitOr(Shl(1, EN_CRC), Shl(1, CRCO))
    IN  IF len < 1
        THEN Ret(ClearRegisterBit(m, CONFIG, EN_CRC), Nil)
        ELSE IF len = 1
             THEN Ret(UpdateRegister(m, CONFIG, Shl(1, EN_CRC), mask), Nil)
             ELSE Ret(UpdateRegister(m, CONFIG, BitOr(Shl(1, EN_CRC), Shl(1, CRCO)), mask),
                      Nil)

\* SetCRCLength(1) setting EN_CRC without clearing CRCO
SetCRCLength_NarrowMask(m, len) ==
    LET mask == BitOr(Shl(1, EN_CRC), Shl(1, CRCO))
    IN  IF len < 1
        THEN IF ~m.d.compatModeEnabled
             THEN Ret(m, ErrNRF24InvalidConfig)
             ELSE Ret(ClearRegisterBit(m, CONFIG, EN_CRC), Nil)
        ELSE IF len = 1
             THEN Ret(UpdateRegister(m, CONFIG, Shl(1, EN_CRC), Shl(1, EN_CRC)), Nil)
             ELSE Ret(UpdateRegister(m, CONFIG, BitOr(Shl(1, EN_CRC), Shl(1, CRCO)), mask),
                      Nil)

SetCRCLength(m, len) ==
    LET mask == BitOr(Shl(1, EN_CRC), Shl(1, CRCO))
    IN  IF len < 1
        THEN IF ~m.d.compatModeEnabled
             THEN Ret(m, ErrNRF24InvalidConfig)
             ELSE Ret(ClearRegisterBit(m, CONFIG, EN_CRC), Nil)
        ELSE IF len = 1
             THEN Ret(UpdateRegister(m, CONFIG, Shl(1, EN_CRC), mask), Nil)
             ELSE Ret(UpdateRegister(m, CONFIG, BitOr(Shl(1, EN_CRC), Shl(1, CRCO)), mask),
                      Nil)

CRCLength(m) ==
    LET rval == ReadRegisterByteVal(m, CONFIG)
        m1 == ReadRegisterByte(m, CONFIG)
    IN  IF BitAnd(rval, Shl(1, EN_CRC)) > 0
        THEN IF BitAnd(rval, Shl(1, CRCO)) > 0 THEN Ret(m1, 2) ELSE Ret(m1, 1)
        ELSE Ret(m1, 0)

WriteAckPayload(m, pipe, data) ==
    IF pipe > 5 THEN Ret(m, ErrNRF24InvalidPipe)
    ELSE Ret(SendCommand(m, BitOr(W_ACK_PAYLOAD, pipe), data), Nil)

\* SetAckPayload setting EN_ACK_PAY before dynamic payload is enabled
SetAckPayload_AckPayFirst(m, enable) ==
    IF enable
    THEN Ret(SetDynamicPayload(WriteRegisterBit(m, FEATURE, EN_ACK_PAY, 1), 0, TRUE).m,
             Void)
    ELSE Ret(WriteRegisterBit(m, FEATURE, EN_ACK_PAY, 0), Void)

SetAckPayload(m, enable) ==
    IF enable
    THEN Ret(WriteRegisterBit(SetDynamicPayload(m, 0, TRUE).m, FEATURE, EN_ACK_PAY, 1),
             Void)
    ELSE Ret(WriteRegisterBit(m, FEATURE, EN_ACK_PAY, 0), Void)

\* SetMaxRetries without the clamp of its argument
SetMaxRetries_NoClamp(m, retries) ==
    Ret(UpdateRegister(m, SETUP_RETR, Shl(retries, ARC), Shl(15, ARC)), Void)

SetMaxRetries(m, retries) ==
    Ret(UpdateRegister(m, SETUP_RETR, Shl(MinInt(retries, 15), ARC), Shl(15, ARC)), Void)

\* SetRetryDelay with every bit of the register in its mask
SetRetryDelay_WholeRegister(m, delay) ==
    Ret(UpdateRegister(m, SETUP_RETR, Shl(MinInt(delay, 15), ARD), 255), Void)

SetRetryDelay(m, delay) ==
    Ret(UpdateRegister(m, SETUP_RETR, Shl(MinInt(delay, 15), ARD), Shl(15, ARD)), Void)

ResetLostPacketsCounter(m) == SetChannel(m, m.d.channel)

EnableCompatMode(m) ==
    Ret(WriteRegisterByte(WriteRegisterByte(m, EN_AA, 0), SETUP_RETR, 0), Void)

(***************************************************************************)
(* Payload.                                                                *)
(***************************************************************************)
FlushTX(m) == Ret(SendCommand(m, FLUSH_TX, <<>>), Void)

FlushRX(m) == Ret(SendCommand(m, FLUSH_RX, <<>>), Void)

\* the byte PayloadLength reads in its transaction; the source sends
\* R_RX_PAYLOAD there
PayloadLengthRead(m) == TransferReply(Transfer(CsnLow(m), R_RX_PAYLOAD), NOOP)

\* the value PayloadLength returns; the source tests d.dinamicPayloadsEnabled,
\* the Device's field is the byte dinamicPayloadEnabled
PayloadLengthVal(m) ==
    IF m.d.dinamicPayloadEnabled = 0 THEN m.d.payloadLength
    ELSE IF PayloadLengthRead(m) > 32 THEN 0
    ELSE PayloadLengthRead(m)

\* the machine after PayloadLength
PayloadLength(m) ==
    IF m.d.dinamicPayloadEnabled = 0 THEN m
    ELSE LET m1 == CsnHigh(Transfer(Transfer(CsnLow(m), R_RX_PAYLOAD), NOOP))
         IN  IF PayloadLengthRead(m) > 32 THEN FlushRX(m1).m ELSE m1

\* ReadPayload(into) returns the pipe and the length; into is returned too
ReadPayload(m, into) ==
    LET n == PayloadLengthVal(m)
        m1 == PayloadLength(m)
    IN  IF n = 0 THEN Ret(m1, [pipe |-> 0, n |-> 0, into |-> into])
        \* into[0:n] beyond the buffer panics
        ELSE IF n > Len(into) THEN Ret(m1, [pipe |-> 0, n |-> n, into |-> Panic])
        ELSE LET s == SendCommandTx(m1, R_RX_PAYLOAD, NilSlice,
                                    Slice(SubSeq(into, 1, n)))
             IN  Ret(s.m, [pipe |-> BitAnd(Shr(s.status, RX_P_NO), 7),
                           n |-> n,
                           into |-> s.response.elems \o SubSeq(into, n + 1, Len(into))])

WritePayload(m, data, noAck) ==
    Ret(SendCommand(m, IF noAck THEN W_TX_PAYLOAD_NOACK ELSE W_TX_PAYLOAD, data), Void)

(***************************************************************************)
(* Arguments of the calls.                                                 *)
(***************************************************************************)
\* address and payload buffers hold 0..MaxBufLen bytes
MaxBufLen == 5

PipeArgs == 0..MaxPipeArg

\* the buffer of n bytes 161, 162, ...
BufOf(n) == [i \in 1..n |-> 160 + i]

BufArgs == {BufOf(n) : n \in 0..MaxBufLen}

\* the addresses given to SetRXAddress: empty, of each width below five, and
\* the longest buffer
AddressArgs == {BufOf(0), BufOf(3), BufOf(4), BufOf(MaxBufLen)}

\* the empty payload and the longest one
PayloadArgs == {BufOf(0), BufOf(MaxBufLen)}

WidthArgs == {2, 3, 4, 5, 6, 255}

ChannelArgs == {76, 200}

\* channels around the largest one
ChannelEdgeArgs == (125 - ChannelSpan)..(125 + ChannelSpan)

PayloadLengthArgs == {0, 1, 32}

\* CONFIG when the driver is bound to the chip: the reset value, all writable
\* bits clear, all set, and the interrupt masks with PRIM_RX
ConfigArgs == {8, 0, 127, 113}

\* register arguments: registers of seven, two and eight writable bits, one of
\* five bytes, and an address with bits above REGISTER_MASK
RegisterArgs == {CONFIG, SETUP_AW, SETUP_RETR, RX_ADDR_P0, W_REGISTER + SETUP_RETR}

\* values to OR in: none, bits inside and outside UpdateMaskArgs' 12, all
UpdateValueArgs == {0, 10, 255}

\* masks to clear: none, two bits, all
UpdateMaskArgs == {0, 12, 255}

\* the commands given to SendCommand
CommandArgs == {W_TX_PAYLOAD}

\* the data and response slices given to SendCommand: none, write only, read
\* only, different lengths, equal lengths
ExchangeArgs ==
    {<<NilSlice, NilSlice>>, <<Slice(BufOf(2)), NilSlice>>, <<NilSlice, Slice(BufOf(2))>>,
     <<Slice(BufOf(1)), Slice(BufOf(2))>>, <<Slice(BufOf(2)), Slice(BufOf(2))>>}

\* bytes to transfer: no bit, alternating bits, the lowest and the highest
\* bit, every bit
TransferArgs == {0, 165, 90, 1, 128, 255}

\* what drives SDI: SDO itself, or a peer that answers 60
PeerArgs == {[loop |-> TRUE, byte |-> 0], [loop |-> FALSE, byte |-> 60]}

\* the slices given to Tx: nil, empty, and up to MaxTxLen bytes
SliceArgs == {NilSlice} \cup {Slice(BufOf(n)) : n \in 0..MaxTxLen}

\* the Delay field a program may set before Configure
DelayArgs == {0, 3}

\* retry counts and delays: every legal value, the first above, the largest
RetryArgs == (0..MaxRetryArg) \cup {255}

\* a legal and a too large retry count or delay
RetryCallArgs == {9, 255}

\* the RX FIFO when the payload is read: empty, a packet of three bytes, and
\* a packet whose reported width is invalid
RxArgs == {NoPacket, [wid |-> 3, data |-> BufOf(3)], [wid |-> 40, data |-> BufOf(MaxBufLen)]}

(***************************************************************************)
(* The calls.  A call runs its handler to completion on the current        *)
(* machine; last records the call and what it returned, log the bus events *)
(* of that call, calls the number of calls made, counted up to MaxCalls.   *)
(***************************************************************************)
Call(op, args, result) ==
    \E r \in {result} :
        /\ regs' = r.m.regs
        /\ d' = r.m.d
        /\ ce' = r.m.ce
        /\ csn' = r.m.csn
        /\ log' = r.m.log
        /\ last' = [op |-> op, args |-> args, ret |-> r.ret]
        /\ calls' = IF calls < MaxCalls THEN calls + 1 ELSE calls
        /\ UNCHANGED <<bbspi, bblast>>

DoConfigure ==
    \E address \in BufArgs, channel \in ChannelArgs :
        Call("Configure", <<address, channel>>, Configure(Machine, address, channel))

DoStatus == Call("Status", <<>>, Status(Machine))

DoPowerDown == Call("PowerDown", <<>>, PowerDown(Machine))

DoPowerUp == Call("PowerUp", <<>>, PowerUp(Machine))

CallSetChannel(channel) == Call("SetChannel", <<channel>>, SetChannel(Machine, channel))

DoSetChannel == \E channel \in ChannelArgs : CallSetChannel(channel)

DoChannel == Call("Channel", <<>>, Channel(Machine))

DoSetRXAddress ==
    \E pipe \in PipeArgs, address \in AddressArgs :
        Call("SetRXAddress", <<pipe, address>>, SetRXAddress(Machine, pipe, address))

DoSetAddressWidth ==
    \E width \in WidthArgs :
        Call("SetAddressWidth", <<width>>, SetAddressWidth(Machine, width))

DoSetTXAddress ==
    \E address \in BufArgs :
        Call("SetTXAddress", <<address>>, SetTXAddress(Machine, address))

CallSetAutoAck(pipe, enable) ==
    Call("SetAutoAck", <<pipe, enable>>, SetAutoAck(Machine, pipe, enable))

DoSetAutoAck == \E pipe \in PipeArgs, enable \in BOOLEAN : CallSetAutoAck(pipe, enable)

CallSetDynamicPayload(pipe, enable) ==
    Call("SetDynamicPayload", <<pipe, enable>>, SetDynamicPayload(Machine, pipe, enable))

DoSetDynamicPayload ==
    \E pipe \in PipeArgs, enable \in BOOLEAN : CallSetDynamicPayload(pipe, enable)

DoSetPayloadLength ==
    \E pipe \in PipeArgs, len \in PayloadLengthArgs :
        Call("SetPayloadLength", <<pipe, len>>, SetPayloadLength(Machine, pipe, len))

DoSetCRCLength ==
    \E len \in 0..MaxCRCArg :
        Call("SetCRCLength", <<len>>, SetCRCLength(Machine, len))

DoCRCLength == Call("CRCLength", <<>>, CRCLength(Machine))

DoWriteAckPayload ==
    \E pipe \in PipeArgs, data \in {BufOf(MaxBufLen)} :
        Call("WriteAckPayload", <<pipe, data>>, WriteAckPayload(Machine, pipe, data))

DoSetAckPayload ==
    \E enable \in BOOLEAN :
        Call("SetAckPayload", <<enable>>, SetAckPayload(Machine, enable))

DoEnableCompatMode == Call("EnableCompatMode", <<>>, EnableCompatMode(Machine))

CallSetMaxRetries(retries) ==
    Call("SetMaxRetries", <<retries>>, SetMaxRetries(Machine, retries))

DoSetMaxRetries == \E retries \in RetryCallArgs : CallSetMaxRetries(retries)

CallSetRetryDelay(delay) ==
    Call("SetRetryDelay", <<delay>>, SetRetryDelay(Machine, delay))

DoSetRetryDelay == \E delay \in RetryCallArgs : CallSetRetryDelay(delay)

DoResetLostPacketsCounter ==
    Call("ResetLostPacketsCounter", <<>>, ResetLostPacketsCounter(Machine))

DoFlushTX == Call("FlushTX", <<>>, FlushTX(Machine))

DoPayloadLength ==
    Call("PayloadLength", <<>>, Ret(PayloadLength(Machine), PayloadLengthVal(Machine)))

DoSendCommand ==
    \E command \in CommandArgs, x \in ExchangeArgs :
        \E s \in {SendCommandTx(Machine, command, x[1], x[2])} :
            Call("SendCommand", <<command, x[1], x[2]>>,
                 Ret(s.m, [status |-> s.status, err |-> s.err, response |-> s.response]))

DoReadRegister ==
    \E register \in {CONFIG, RX_ADDR_P0} :
        Call("ReadRegister", <<register, BufOf(MaxBufLen)>>,
             ReadRegister(Machine, register, BufOf(MaxBufLen)))

DoUpdateRegister ==
    \E register \in RegisterArgs, value \in UpdateValueArgs, mask \in UpdateMaskArgs :
        Call("UpdateRegister", <<register, value, mask>>,
             Ret(UpdateRegister(Machine, register, value, mask),
                 UpdateRegisterVal(Machine, register, value, mask)))

DoFlushRX == Call("FlushRX", <<>>, FlushRX(Machine))

\* the second argument recorded is the packet the chip holds during the call
DoReadPayload ==
    \E into \in PayloadArgs, rx \in RxArgs :
        Call("ReadPayload", <<into, rx>>, ReadPayload([Machine EXCEPT !.rx = rx], into))

DoWritePayload ==
    \E data \in PayloadArgs, noAck \in BOOLEAN :
        Call("WritePayload", <<data, noAck>>, WritePayload(Machine, data, noAck))

\* the pins a BBSPI call runs on
Pins(peer) == [SCK |-> bbspi.SCK, SDO |-> bbspi.SDO, Delay |-> bbspi.Delay,
               peer |-> peer, trace |-> <<>>]

\* a BBSPI call: bblast records the call, the level of SCK when it started,
\* what it returned, the slice r after it and the pin events of the call
BBCall(op, args, t, ret, r) ==
    /\ bbspi' = [SCK |-> t.SCK, SDO |-> t.SDO, Delay |-> t.Delay]
    /\ bblast' = [op |-> op, args |-> args, sck |-> bbspi.SCK, ret |-> ret,
                  r |-> r, trace |-> t.trace]
    /\ UNCHANGED <<regs, d, ce, csn, log, last, calls>>

DoBBSPIConfigure ==
    \E peer \in PeerArgs :
        BBCall("Configure", <<>>, BBSPI_Configure(Pins(peer)), Void, NilSlice)

DoBBSPITransfer ==
    \E b \in TransferArgs, peer \in PeerArgs :
        \E x \in {BBSPI_Transfer(Pins(peer), b)} :
            BBCall("Transfer", <<b, peer>>, x.t, x.r, NilSlice)

DoBBSPITx ==
    \E w \in SliceArgs, r \in SliceArgs, peer \in PeerArgs :
        \E x \in {BBSPI_Tx(Pins(peer), w, r)} :
            BBCall("Tx", <<w, r, peer>>, x.t, x.err, x.r)

(***************************************************************************)
(* Specifications.                                                         *)
(***************************************************************************)
NoCall == [op |-> "New", args |-> <<>>, ret |-> Void]

NoBBCall == [op |-> "BBSPI{}", args |-> <<>>, sck |-> 0, ret |-> Void,
             r |-> NilSlice, trace |-> <<>>]

\* New on a chip out of reset whose CONFIG register holds config; the pins
\* are configured before New: chip-enable low, chip-select high
InitWith(config) ==
    /\ regs = [ResetRegs EXCEPT ![CONFIG] = <<config>>]
    /\ d = NewDevice
    /\ ce = 0
    /\ csn = 1
    /\ log = <<>>
    /\ last = NoCall
    /\ calls = 0
    /\ bbspi = [SCK |-> 0, SDO |-> 0, Delay |-> 1]
    /\ bblast = NoBBCall

Init == InitWith(8)

\* every operation, in runs of at most MaxCalls calls
Next ==
    \/ calls < MaxCalls /\ DoConfigure
    \/ calls < MaxCalls /\ DoStatus
    \/ calls < MaxCalls /\ DoPowerDown
    \/ calls < MaxCalls /\ DoPowerUp
    \/ calls < MaxCalls /\ DoSetChannel
    \/ calls < MaxCalls /\ DoChannel
    \/ calls < MaxCalls /\ DoResetLostPacketsCounter
    \/ calls < MaxCalls /\ DoSetRXAddress
    \/ calls < MaxCalls /\ DoSetAddressWidth
    \/ calls < MaxCalls /\ DoSetTXAddress
    \/ calls < MaxCalls /\ DoSetAutoAck
    \/ calls < MaxCalls /\ DoSetDynamicPayload
    \/ calls < MaxCalls /\ DoSetPayloadLength
    \/ calls < MaxCalls /\ DoSetCRCLength
    \/ calls < MaxCalls /\ DoCRCLength
    \/ calls < MaxCalls /\ DoWriteAckPayload
    \/ calls < MaxCalls /\ DoSetAckPayload
    \/ calls < MaxCalls /\ DoEnableCompatMode
    \/ calls < MaxCalls /\ DoSetMaxRetries
    \/ calls < MaxCalls /\ DoSetRetryDelay
    \/ calls < MaxCalls /\ DoFlushTX
    \/ calls < MaxCalls /\ DoFlushRX
    \/ calls < MaxCalls /\ DoReadPayload
    \/ calls < MaxCalls /\ DoWritePayload
    \/ calls < MaxCalls /\ DoPayloadLength
    \/ calls < MaxCalls /\ DoSendCommand
    \/ calls < MaxCalls /\ DoReadRegister

Spec == Init /\ [][Next]_vars

\* the dynamic payload, auto-ack and ack payload calls, in runs of any length
NextESB ==
    \/ \E pipe \in 0..MaxPipeESB, enable \in BOOLEAN : CallSetDynamicPayload(pipe, enable)
    \/ \E pipe \in 0..MaxPipeESB, enable \in BOOLEAN : CallSetAutoAck(pipe, enable)
    \/ DoSetAckPayload

SpecESB == Init /\ [][NextESB]_vars

\* the CONFIG register calls from any CONFIG value, in runs of any length
InitCRC == \E config \in ConfigArgs : InitWith(config)

NextCRC ==
    \/ DoSetCRCLength
    \/ DoCRCLength
    \/ DoEnableCompatMode
    \/ DoPowerUp
    \/ DoPowerDown

SpecCRC == InitCRC /\ [][NextCRC]_vars

\* the SETUP_RETR calls, in runs of any length
NextRETR ==
    \/ \E retries \in RetryArgs : CallSetMaxRetries(retries)
    \/ \E delay \in RetryArgs : CallSetRetryDelay(delay)
    \/ DoEnableCompatMode

SpecRETR == Init /\ [][NextRETR]_vars

\* the RF_CH calls, in runs of any length
NextCH ==
    \/ \E channel \in ChannelArgs \cup ChannelEdgeArgs \cup {0, 255} : CallSetChannel(channel)
    \/ DoChannel
    \/ DoResetLostPacketsCounter
    \/ DoConfigure

SpecCH == Init /\ [][NextCH]_vars

\* UpdateRegister from any CONFIG value, in runs of at most MaxCalls calls
NextREG == calls < MaxCalls /\ DoUpdateRegister

SpecREG == InitCRC /\ [][NextREG]_vars

\* the transport alone: a BBSPI value on pins at any level, with any Delay
InitSPI ==
    /\ regs = ResetRegs
    /\ d = NewDevice
    /\ ce = 0
    /\ csn = 1
    /\ log = <<>>
    /\ last = NoCall
    /\ calls = 0
    /\ bbspi \in [SCK : {0, 1}, SDO : {0, 1}, Delay : DelayArgs]
    /\ bblast = NoBBCall

NextSPI ==
    \/ DoBBSPIConfigure
    \/ DoBBSPITransfer
    \/ DoBBSPITx

SpecSPI == InitSPI /\ [][NextSPI]_vars

\* the power calls in runs of any length from any CONFIG value and either
\* level of chip-enable, with at most MaxPwrCalls calls of the other
\* operations before them
InitPWR ==
    /\ regs \in {[ResetRegs EXCEPT ![CONFIG] = <<config>>] : config \in ConfigArgs}
    /\ d = NewDevice
    /\ ce \in {0, 1}
    /\ csn = 1
    /\ log = <<>>
    /\ last = NoCall
    /\ calls = 0
    /\ bbspi = [SCK |-> 0, SDO |-> 0, Delay |-> 1]
    /\ bblast = NoBBCall

NextPWR ==
    \/ DoPowerDown
    \/ DoPowerUp
    \/ calls < MaxPwrCalls /\ DoUpdateRegister
    \/ calls < MaxPwrCalls /\ DoConfigure
    \/ calls < MaxPwrCalls /\ DoStatus
    \/ calls < MaxPwrCalls /\ DoSetChannel
    \/ calls < MaxPwrCalls /\ DoChannel
    \/ calls < MaxPwrCalls /\ DoResetLostPacketsCounter
    \/ calls < MaxPwrCalls /\ DoSetRXAddress
    \/ calls < MaxPwrCalls /\ DoSetAddressWidth
    \/ calls < MaxPwrCalls /\ DoSetTXAddress
    \/ calls < MaxPwrCalls /\ DoSetAutoAck
    \/ calls < MaxPwrCalls /\ DoSetDynamicPayload
    \/ calls < MaxPwrCalls /\ DoSetPayloadLength
    \/ calls < MaxPwrCalls /\ DoSetCRCLength
    \/ calls < MaxPwrCalls /\ DoCRCLength
    \/ calls < MaxPwrCalls /\ DoWriteAckPayload
    \/ calls < MaxPwrCalls /\ DoSetAckPayload
    \/ calls < MaxPwrCalls /\ DoEnableCompatMode
    \/ calls < MaxPwrCalls /\ DoSetMaxRetries
    \/ calls < MaxPwrCalls /\ DoSetRetryDelay
    \/ calls < MaxPwrCalls /\ DoFlushTX
    \/ calls < MaxPwrCalls /\ DoFlushRX
    \/ calls < MaxPwrCalls /\ DoReadPayload
    \/ calls < MaxPwrCalls /\ DoWritePayload
    \/ calls < MaxPwrCalls /\ DoPayloadLength
    \/ calls < MaxPwrCalls /\ DoSendCommand
    \/ calls < MaxPwrCalls /\ DoReadRegister

SpecPWR == InitPWR /\ [][NextPWR]_vars

\* the dynamic payload, auto-ack, ack payload and compatibility calls on
\* every pipe argument, in runs of at most MaxCalls calls
NextAA ==
    \/ calls < MaxCalls /\ DoSetDynamicPayload
    \/ calls < MaxCalls /\ DoSetAutoAck
    \/ calls < MaxCalls /\ DoSetAckPayload
    \/ calls < MaxCalls /\ DoEnableCompatMode

SpecAA == Init /\ [][NextAA]_vars

\* Configure, then SetChannel calls, then one ResetLostPacketsCounter
NextLPC ==
    \/ last.op = "New" /\ DoConfigure
    \/ /\ last.op \in {"Configure", "SetChannel"}
       /\ \E channel \in ChannelArgs \cup ChannelEdgeArgs \cup {0, 255} :
            CallSetChannel(channel)
    \/ last.op \in {"Configure", "SetChannel"} /\ DoResetLostPacketsCounter

SpecLPC == Init /\ [][NextLPC]_vars

(***************************************************************************)
(* The claims.                                                             *)
(***************************************************************************)
\* the single byte of a one-byte register
Reg(a) == regs[a][1]

IsCall(l, op, args) == l.op = op /\ l.args = args

\* C1: for every pipe p in 0..5, with compatibility mode not active,
\* SetDynamicPayload(p, true) ends with FEATURE EN_DPL, EN_AA bit p, DYNPD bit p
\* and bit p of the cached auto-ack bitmap set; a SetDynamicPayload(p, false)
\* that follows it clears DYNPD bit p and leaves EN_AA bit p and the cached
\* bit p set.
C1_DynamicPayloadForcesAutoAck ==
    [][/\ \A p \in 0..5 :
            (IsCall(last', "SetDynamicPayload", <<p, TRUE>>) /\ ~d.compatModeEnabled)
                => /\ last'.ret = Nil
                   /\ Bit(regs'[FEATURE][1], EN_DPL) = 1
                   /\ Bit(regs'[EN_AA][1], p) = 1
                   /\ Bit(regs'[DYNPD][1], p) = 1
                   /\ Bit(d'.autoAckEnabled, p) = 1
       /\ \A p \in 0..5 :
            (/\ IsCall(last, "SetDynamicPayload", <<p, TRUE>>)
             /\ IsCall(last', "SetDynamicPayload", <<p, FALSE>>))
                => /\ last'.ret = Nil
                   /\ Bit(regs'[DYNPD][1], p) = 0
                   /\ Bit(regs'[EN_AA][1], p) = 1
                   /\ Bit(d'.autoAckEnabled, p) = 1]_vars

\* dynamic payload was enabled and then disabled on pipe 5: auto-ack stays
C1_Witness ==
    /\ IsCall(last, "SetDynamicPayload", <<5, FALSE>>)
    /\ calls = 2
    /\ Reg(DYNPD) = 0
    /\ Reg(EN_AA) = 32
    /\ d.autoAckEnabled = 32

\* C2: SetDynamicPayload(p, false) clears only bit p of DYNPD and clears
\* FEATURE EN_DPL exactly when no DYNPD bit remains set, leaving FEATURE as it
\* was otherwise; from DYNPD = 0 and EN_DPL = 0, EN_DPL is set after every call
\* if and only if some DYNPD pipe bit is set.
C2_DPLClearedWithLastPipe ==
    [][/\ \A p \in 0..5 :
            IsCall(last', "SetDynamicPayload", <<p, FALSE>>)
                => /\ regs'[DYNPD][1] = BitAndNot(regs[DYNPD][1], Shl(1, p))
                   /\ regs'[FEATURE][1] =
                        IF regs'[DYNPD][1] = 0
                        THEN BitAndNot(regs[FEATURE][1], Shl(1, EN_DPL))
                        ELSE regs[FEATURE][1]
       /\ (Bit(regs'[FEATURE][1], EN_DPL) = 1)
            <=> (BitAnd(regs'[DYNPD][1], DYNPD_MASK) # 0)]_vars

\* dynamic payload was disabled on pipe 1 while pipe 2 keeps it
C2_Witness ==
    /\ IsCall(last, "SetDynamicPayload", <<1, FALSE>>)
    /\ Reg(DYNPD) = 4
    /\ Bit(Reg(FEATURE), EN_DPL) = 1
    /\ Bit(Reg(EN_AA), 1) = 1

\* C3: while compatibility mode is not active SetCRCLength(0) returns
\* ErrNRF24InvalidConfig, changes no register and issues no bus transaction.
C3_NoCRCOffOutsideCompat ==
    [][(IsCall(last', "SetCRCLength", <<0>>) /\ ~d.compatModeEnabled)
            => /\ last'.ret = ErrNRF24InvalidConfig
               /\ regs' = regs
               /\ log' = <<>>]_vars

\* SetCRCLength(0) was refused on a chip with every CONFIG bit set
C3_Witness ==
    /\ IsCall(last, "SetCRCLength", <<0>>)
    /\ last.ret = ErrNRF24InvalidConfig
    /\ Reg(CONFIG) = 127
    /\ log = <<>>

\* C4: once EnableCompatMode has been called, SetCRCLength(0) returns no
\* error and clears the EN_CRC bit of CONFIG.
C4_CRCOffInCompat ==
    [][(last.op = "EnableCompatMode" /\ IsCall(last', "SetCRCLength", <<0>>))
            => /\ last'.ret = Nil
               /\ Bit(regs'[CONFIG][1], EN_CRC) = 0]_vars

\* C5: after EnableCompatMode the EN_AA register is 0, and every SetAutoAck
\* that follows fails with ErrNRF24InvalidConfig and leaves EN_AA and the
\* cached auto-ack bitmap unchanged.
C5_NoAutoAckInCompat ==
    [][/\ last'.op = "EnableCompatMode" => regs'[EN_AA][1] = 0
       /\ (last.op = "EnableCompatMode" /\ last'.op = "SetAutoAck")
            => /\ last'.ret = ErrNRF24InvalidConfig
               /\ regs'[EN_AA] = regs[EN_AA]
               /\ d'.autoAckEnabled = d.autoAckEnabled]_vars

\* C6: SetCRCLength(n) fails with ErrNRF24InvalidConfig and leaves CONFIG
\* unchanged for every n other than 0, 1 and 2.
C6_CRCLengthAbove2Rejected ==
    [][(last'.op = "SetCRCLength" /\ last'.args[1] > 2)
            => /\ last'.ret = ErrNRF24InvalidConfig
               /\ regs'[CONFIG] = regs[CONFIG]]_vars

\* the EN_CRC and CRCO bits of CONFIG
CRCBits == BitOr(Shl(1, EN_CRC), Shl(1, CRCO))

\* C7: from any CONFIG value SetCRCLength(1) and SetCRCLength(2) return no
\* error, leave the CONFIG bits other than EN_CRC and CRCO unchanged and
\* produce the different patterns EN_CRC and EN_CRC|CRCO; a CRCLength() that
\* follows returns 1 and 2.
C7_CRCLength1And2 ==
    [][/\ \A n \in {1, 2} :
            IsCall(last', "SetCRCLength", <<n>>)
                => /\ last'.ret = Nil
                   /\ BitAndNot(regs'[CONFIG][1], CRCBits)
                        = BitAndNot(regs[CONFIG][1], CRCBits)
                   /\ BitAnd(regs'[CONFIG][1], CRCBits)
                        = (IF n = 1 THEN Shl(1, EN_CRC) ELSE CRCBits)
       /\ \A n \in {1, 2} :
            (IsCall(last, "SetCRCLength", <<n>>) /\ last'.op = "CRCLength")
                => last'.ret = n]_vars

\* CRCLength returned 2 on a chip whose CONFIG held no CRCO bit at first
C7_Witness ==
    /\ last.op = "CRCLength"
    /\ last.ret = 2
    /\ Reg(CONFIG) = CRCBits

ValidationErrors ==
    {ErrNRF24InvalidPipe, ErrNRF24InvalidAddressLength, ErrNRF24InvalidConfig}

ValidatingCalls ==
    {"SetRXAddress", "SetTXAddress", "SetDynamicPayload", "SetPayloadLength",
     "SetAutoAck", "WriteAckPayload", "SetCRCLength"}

\* C8: a call that returns a validation error performs no bus activity:
\* chip-select is not asserted, no byte is transferred, and every chip
\* register, cached field and control line is as before the call.
C8_ValidationBeforeBus ==
    [][(last'.op \in ValidatingCalls /\ last'.ret \in ValidationErrors)
            => /\ log' = <<>>
               /\ regs' = regs
               /\ d' = d
               /\ csn' = csn
               /\ ce' = ce]_vars

\* a too short address was refused for pipe 1 after the width was set to 5
C8_Witness ==
    /\ IsCall(last, "SetRXAddress", <<1, BufOf(4)>>)
    /\ last.ret = ErrNRF24InvalidAddressLength
    /\ d.addressWidth = 5
    /\ Reg(SETUP_AW) = 3
    /\ log = <<>>

\* C9: for every pipe in 0..5 SetRXAddress(pipe, addr) with
\* len(addr) < addressWidth is refused with ErrNRF24InvalidAddressLength before
\* any bus access, and so is SetTXAddress(addr); pipes 2..5 and an empty
\* buffer included.
C9_ShortAddressRejected ==
    /\ (last.op = "SetRXAddress" /\ last.args[1] <= 5
            /\ Len(last.args[2]) < d.addressWidth)
        => (last.ret = ErrNRF24InvalidAddressLength /\ log = <<>>)
    /\ (last.op = "SetTXAddress" /\ Len(last.args[1]) < d.addressWidth)
        => (last.ret = ErrNRF24InvalidAddressLength /\ log = <<>>)

\* C10: SetTXAddress(addr) with a valid length writes addr to TX_ADDR and,
\* when auto-ack is enabled on pipe 0, to RX_ADDR_P0 too, so that RX_ADDR_P0
\* equals TX_ADDR; with auto-ack disabled on pipe 0 RX_ADDR_P0 is unchanged.
C10_TXAddressMirroredToPipe0 ==
    [][(last'.op = "SetTXAddress" /\ last'.ret = Nil)
            => /\ regs'[TX_ADDR] = ChipStore(regs[TX_ADDR], TX_ADDR, last'.args[1])
               /\ regs'[RX_ADDR_P0] =
                    IF Bit(d.autoAckEnabled, 0) = 1
                    THEN regs'[TX_ADDR]
                    ELSE regs[RX_ADDR_P0]]_vars

\* C11: for every pipe p in 0..5 SetPayloadLength(p, n) with n in 1..32 writes
\* n into the payload width register RX_PW_Pp (0x11 + p) and changes no other
\* register, no RX_ADDR_Px in particular; SetPayloadLength(p, 0) is refused
\* with an error and writes nothing.
C11_PayloadLengthWritesRXPW ==
    [][\A p \in 0..5 :
            (last'.op = "SetPayloadLength" /\ last'.args[1] = p)
                => /\ last'.args[2] \in 1..32
                        => /\ last'.ret = Nil
                           /\ regs' = [regs EXCEPT ![RX_PW_P0 + p] = <<last'.args[2]>>]
                   /\ last'.args[2] = 0
                        => /\ last'.ret \notin {Nil, Void}
                           /\ regs' = regs
                           /\ log' = <<>>]_vars

\* the command bytes of a log: the byte that follows each chip-select low
Opcodes(l) == {l[i + 1][2] : i \in {j \in 1..(Len(l) - 1) : l[j] = <<"csn", 0>>}}

\* the bytes a log transfers
Bytes(l) == SelectSeq(l, LAMBDA e : e[1] = "xfer")

\* C12: with dynamic payload enabled ReadPayload first issues R_RX_PL_WID
\* (0x60) and reads one length byte; when that byte is above 32 it issues
\* FLUSH_RX, returns the count 0 and never issues R_RX_PAYLOAD; when it is in
\* 1..32 it issues R_RX_PAYLOAD and reads exactly that many bytes.
C12_ReadPayloadAsksWidthFirst ==
    [][(last'.op = "ReadPayload" /\ Bit(regs[FEATURE][1], EN_DPL) = 1
            /\ regs[DYNPD][1] # 0)
        => LET wid == last'.args[2].wid
           IN  /\ Len(log') >= 3
               /\ SubSeq(log', 1, 3)
                    = <<(<<"csn", 0>>), (<<"xfer", R_RX_PL_WID>>), (<<"xfer", NOOP>>)>>
               /\ wid > 32
                    => /\ FLUSH_RX \in Opcodes(log')
                       /\ R_RX_PAYLOAD \notin Opcodes(log')
                       /\ last'.ret.n = 0
               /\ wid \in 1..32
                    => /\ R_RX_PAYLOAD \in Opcodes(log')
                       /\ last'.ret.n = wid
                       /\ Len(Bytes(log')) = 2 + 1 + wid]_vars

\* the indices of a log at which a register write starts: chip-select low,
\* a W_REGISTER command byte and a data byte
WriteStarts(l) ==
    SelectSeq([i \in 1..Len(l) |-> i],
              LAMBDA i : /\ i + 2 <= Len(l)
                         /\ l[i] = <<"csn", 0>>
                         /\ l[i + 1][1] = "xfer"
                         /\ l[i + 1][2] >= W_REGISTER
                         /\ l[i + 1][2] <= W_REGISTER + REGISTER_MASK
                         /\ l[i + 2][1] = "xfer")

\* the register writes of a log in order, each <<W_REGISTER | address, first
\* data byte>>
Writes(l) ==
    LET ws == WriteStarts(l)
    IN  [k \in 1..Len(ws) |-> <<l[ws[k] + 1][2], l[ws[k] + 2][2]>>]

\* the bus events of a transaction of the bytes bs
Frame(bs) ==
    <<(<<"csn", 0>>)>> \o [k \in 1..Len(bs) |-> <<"xfer", bs[k]>>] \o <<(<<"csn", 1>>)>>

\* f writes a byte with bit b set to register a
WritesBit(f, a, b) == f[1] = W_REGISTER + a /\ Bit(f[2], b) = 1

\* C13: SetAckPayload(true) applies the dynamic payload rule to pipe 0 first
\* and sets EN_ACK_PAY after it: the write that sets EN_ACK_PAY is the last
\* write of the call, it follows the writes that set EN_DPL, EN_AA bit 0 and
\* DYNPD bit 0, and no write before it changes EN_ACK_PAY; on return all four
\* bits are set.  SetAckPayload(false) clears only EN_ACK_PAY and leaves
\* EN_DPL, DYNPD and EN_AA unchanged.
C13_AckPayloadAfterDynamicPayload ==
    [][/\ IsCall(last', "SetAckPayload", <<TRUE>>)
            => LET w == Writes(log')
                   n == Len(w)
               IN  /\ n > 3
                   /\ WritesBit(w[n], FEATURE, EN_ACK_PAY)
                   /\ \E i \in 1..(n - 1) : WritesBit(w[i], FEATURE, EN_DPL)
                   /\ \E i \in 1..(n - 1) : WritesBit(w[i], EN_AA, 0)
                   /\ \E i \in 1..(n - 1) : WritesBit(w[i], DYNPD, 0)
                   /\ \A i \in 1..(n - 1) :
                        w[i][1] = W_REGISTER + FEATURE
                            => Bit(w[i][2], EN_ACK_PAY) = Bit(regs[FEATURE][1], EN_ACK_PAY)
                   /\ Bit(regs'[FEATURE][1], EN_ACK_PAY) = 1
                   /\ Bit(regs'[FEATURE][1], EN_DPL) = 1
                   /\ Bit(regs'[EN_AA][1], 0) = 1
                   /\ Bit(regs'[DYNPD][1], 0) = 1
       /\ IsCall(last', "SetAckPayload", <<FALSE>>)
            => /\ regs' = [regs EXCEPT ![FEATURE] =
                                <<BitAndNot(regs[FEATURE][1], Shl(1, EN_ACK_PAY))>>]
               /\ d' = d]_vars

\* ack payloads were enabled on a chip that had dynamic payload on pipe 3
\* only: the call ends with the write of EN_ACK_PAY
C13_Witness ==
    /\ IsCall(last, "SetAckPayload", <<TRUE>>)
    /\ Reg(FEATURE) = 6
    /\ Reg(DYNPD) = 9
    /\ Reg(EN_AA) = 9
    /\ Writes(log)[Len(Writes(log))] = <<W_REGISTER + FEATURE, 6>>

\* the retry count field ARC (bits 3:0) and the retry delay field ARD (bits
\* 7:4) of a SETUP_RETR byte
LowNibble(x) == BitAnd(x, 15)

HighNibble(x) == Shr(x, 4)

\* C14, as stated: SetMaxRetries(n) writes min(n, 15) into the high nibble
\* (bits 7:4) of SETUP_RETR and SetRetryDelay(n) writes min(n, 15) into its
\* low nibble (bits 3:0); neither returns an error.
C14_RetriesHighDelayLow ==
    [][/\ last'.op = "SetMaxRetries"
            => /\ HighNibble(regs'[SETUP_RETR][1]) = MinInt(last'.args[1], 15)
               /\ last'.ret = Void
       /\ last'.op = "SetRetryDelay"
            => /\ LowNibble(regs'[SETUP_RETR][1]) = MinInt(last'.args[1], 15)
               /\ last'.ret = Void]_vars

\* C14, amended: SetMaxRetries(n) writes min(n, 15) into the low nibble (bits
\* 3:0, ARC) of SETUP_RETR and SetRetryDelay(n) writes min(n, 15) into its
\* high nibble (bits 7:4, ARD); neither returns an error.
C14_RetriesLowDelayHigh ==
    [][/\ last'.op = "SetMaxRetries"
            => /\ LowNibble(regs'[SETUP_RETR][1]) = MinInt(last'.args[1], 15)
               /\ last'.ret = Void
       /\ last'.op = "SetRetryDelay"
            => /\ HighNibble(regs'[SETUP_RETR][1]) = MinInt(last'.args[1], 15)
               /\ last'.ret = Void]_vars

\* SetMaxRetries(255) was clamped to 15 on a chip whose retry delay is 15
C14_Witness ==
    /\ IsCall(last, "SetMaxRetries", <<255>>)
    /\ Reg(SETUP_RETR) = 255

\* w clamped to 3..5
ClampWidth(w) == IF w < 3 THEN 3 ELSE IF w > 5 THEN 5 ELSE w

\* C15: SetAddressWidth(w) writes clamp(w, 3, 5) - 2 to SETUP_AW and sets the
\* cached address width to clamp(w, 3, 5), so that the cached width is
\* SETUP_AW + 2; it writes no other register, no pipe address register in
\* particular.
C15_AddressWidthClamped ==
    [][last'.op = "SetAddressWidth"
        => LET w == ClampWidth(last'.args[1])
           IN  /\ log' = Frame(<<W_REGISTER + SETUP_AW, w - 2>>)
               /\ regs' = [regs EXCEPT ![SETUP_AW] = <<w - 2>>]
               /\ d' = [d EXCEPT !.addressWidth = w]
               /\ d'.addressWidth = regs'[SETUP_AW][1] + 2]_vars

\* SetAddressWidth(2) as the second call: the width is 3
C15_Witness ==
    /\ IsCall(last, "SetAddressWidth", <<2>>)
    /\ calls = 2
    /\ Reg(SETUP_AW) = 1
    /\ d.addressWidth = 3
    /\ Reg(RX_ADDR_P0) = 231

\* C16: SetChannel(c) leaves RF_CH equal to c when c <= 125 and to 125 when
\* c > 125 and never rejects the call; so RF_CH is at most 125 after every
\* SetChannel, whatever calls came before.
C16_ChannelClamped ==
    [][last'.op = "SetChannel"
        => LET c == last'.args[1]
           IN  /\ regs'[RF_CH][1] = (IF c <= 125 THEN c ELSE 125)
               /\ regs'[RF_CH][1] <= 125
               /\ last'.ret = Void
               /\ log' = Frame(<<W_REGISTER + RF_CH, regs'[RF_CH][1]>>)]_vars

\* SetChannel(127), which the chip's seven channel bits could hold, was
\* clamped to 125 after another call
C16_Witness ==
    /\ IsCall(last, "SetChannel", <<127>>)
    /\ Reg(RF_CH) = 125
    /\ calls = 2

\* C17: UpdateRegister(addr, value, mask) reads the register's byte r and
\* writes back and returns (r AND NOT mask) OR value; a second call with the
\* same arguments writes and returns the same byte and leaves the register as
\* the first call left it.
C17_UpdateRegisterIdempotent ==
    [][last'.op = "UpdateRegister"
        => LET a == BitAnd(last'.args[1], REGISTER_MASK)
               new == BitOr(BitAndNot(regs[a][1], last'.args[3]), last'.args[2])
           IN  /\ last'.ret = new
               /\ log' = Frame(<<R_REGISTER + a, NOOP>>) \o Frame(<<W_REGISTER + a, new>>)
               /\ regs' = [regs EXCEPT ![a] = ChipStore(regs[a], a, <<new>>)]
               /\ (last.op = "UpdateRegister" /\ last.args = last'.args)
                    => /\ last'.ret = last.ret
                       /\ log' = log
                       /\ regs' = regs]_vars

\* the second UpdateRegister(SETUP_AW, 10, 12): it returns 11, of which the
\* chip keeps 3
C17_Witness ==
    /\ IsCall(last, "UpdateRegister", <<SETUP_AW, 10, 12>>)
    /\ last.ret = 11
    /\ Reg(SETUP_AW) = 3
    /\ calls = 2
    /\ Reg(CONFIG) = 113

\* C18: Tx(w, r) with both slices non-empty and of different lengths returns
\* the size-mismatch error and has no bus activity: no pin event (no clock
\* edge, no data-out change, no byte transferred), the pins as before, and r
\* as it was given.
C18_TxSizeMismatchNoBusActivity ==
    [][(/\ bblast'.op = "Tx"
        /\ Len(bblast'.args[1].elems) > 0
        /\ Len(bblast'.args[2].elems) > 0
        /\ Len(bblast'.args[1].elems) # Len(bblast'.args[2].elems))
        => /\ bblast'.ret = ErrTxInvalidSliceSize
           /\ bblast'.trace = <<>>
           /\ bbspi' = bbspi
           /\ bblast'.r = bblast'.args[2]]_vars

\* Tx of one byte against a slice of two was refused
C18_Witness ==
    /\ bblast.op = "Tx"
    /\ bblast.args[1] = Slice(BufOf(1))
    /\ bblast.args[2] = Slice(BufOf(2))
    /\ bblast.ret = ErrTxInvalidSliceSize
    /\ bblast.trace = <<>>

\* the levels SCK takes in a call: the level it started with, then each level
\* set
SCKLevels(l) ==
    <<l.sck>> \o [k \in 1..Len(SelectSeq(l.trace, LAMBDA e : e[1] = "SCK")) |->
                    SelectSeq(l.trace, LAMBDA e : e[1] = "SCK")[k][2]]

\* the clock pulses of a call: the times SCK goes from low to high
Pulses(l) ==
    Cardinality({k \in 1..(Len(SCKLevels(l)) - 1) :
                    SCKLevels(l)[k] = 0 /\ SCKLevels(l)[k + 1] = 1})

\* C20: Transfer(b) started with the clock low produces exactly 8 clock
\* pulses; for i = 0..7 it sets data-out to bit (7 - i) of b before the rising
\* edge, samples data-in while the clock is high into bit (7 - i) of the
\* result, and then lowers the clock, which it leaves low; against a loopback
\* peer it returns b.
C20_TransferMSBFirst ==
    (bblast.op = "Transfer" /\ bblast.sck = 0)
        => LET b == bblast.args[1]
               tr == bblast.trace
           IN  /\ Pulses(bblast) = 8
               /\ Len(tr) = 32
               /\ \A i \in 0..7 :
                    /\ tr[4 * i + 1] = <<"SDO", Bit(b, 7 - i)>>
                    /\ tr[4 * i + 2] = <<"SCK", 1>>
                    /\ tr[4 * i + 3][1] = "SDI"
                    /\ tr[4 * i + 4] = <<"SCK", 0>>
                    /\ Bit(bblast.ret, 7 - i) = tr[4 * i + 3][2]
               /\ bblast.ret \in Byte
               /\ bbspi.SCK = 0
               /\ bblast.args[2].loop => bblast.ret = b

\* Transfer(0xA5) against a loopback peer returned 0xA5
C20_Witness ==
    /\ bblast.op = "Transfer"
    /\ bblast.sck = 0
    /\ bblast.args = <<165, [loop |-> TRUE, byte |-> 0]>>
    /\ bblast.ret = 165
    /\ Pulses(bblast) = 8
    /\ bbspi = [SCK |-> 0, SDO |-> 1, Delay |-> 1]

\* b is one of the command bytes of registers.go
IsCommand(b) ==
    \/ b >= R_REGISTER /\ b <= R_REGISTER + REGISTER_MASK
    \/ b >= W_REGISTER /\ b <= W_REGISTER + REGISTER_MASK
    \/ b >= W_ACK_PAYLOAD /\ b <= W_ACK_PAYLOAD + 5
    \/ b \in {R_RX_PAYLOAD, W_TX_PAYLOAD, FLUSH_TX, FLUSH_RX, R_RX_PL_WID,
              W_TX_PAYLOAD_NOACK, NOOP}

\* C19: every call frames its bus traffic with chip-select.  A byte is only
\* transferred while chip-select is low: it follows chip-select going low or
\* another byte.  Chip-select going low is followed by a command byte, and
\* the bytes of a transaction end with chip-select going high.  Chip-select
\* is high after every call.  SendCommand raises chip-select and returns the
\* transport's error also when the data phase fails.
C19_ChipSelectFraming ==
    [][/\ csn = 1
       /\ \A k \in 1..Len(log') :
            /\ log'[k][1] = "xfer"
                => /\ k > 1
                   /\ (log'[k - 1][1] = "xfer" \/ log'[k - 1] = <<"csn", 0>>)
                   /\ k < Len(log')
                   /\ (log'[k + 1][1] = "xfer" \/ log'[k + 1] = <<"csn", 1>>)
            /\ log'[k] = <<"csn", 0>>
                => /\ k < Len(log')
                   /\ log'[k + 1][1] = "xfer"
                   /\ IsCommand(log'[k + 1][2])
       /\ csn' = 1
       /\ (/\ last'.op = "SendCommand"
           /\ ~last'.args[2].isnil
           /\ ~last'.args[3].isnil
           /\ Len(last'.args[2].elems) # Len(last'.args[3].elems))
            => /\ last'.ret.err = ErrTxInvalidSliceSize
               /\ log' = Frame(<<last'.args[1]>>)
               /\ last'.ret.response = last'.args[3]]_vars

\* SendCommand with one byte to write and two to read returned the
\* transport's error after the command byte, with chip-select high
C19_Witness ==
    /\ IsCall(last, "SendCommand", <<W_TX_PAYLOAD, Slice(BufOf(1)), Slice(BufOf(2))>>)
    /\ last.ret.err = ErrTxInvalidSliceSize
    /\ log = <<(<<"csn", 0>>), (<<"xfer", W_TX_PAYLOAD>>), (<<"csn", 1>>)>>
    /\ csn = 1

(***************************************************************************)
(* The power state machine.                                                *)
(***************************************************************************)
PwrUp(v) == Bit(v, PWR_UP)

\* the operations that write to a register what the caller passes
RawWrites == {"UpdateRegister"}

\* what PowerDown and PowerUp do, and that no call raises chip-enable
PowerCalls ==
    /\ last'.op = "PowerDown"
         => /\ ce' = 0
            /\ Reg(CONFIG)' = BitAndNot(Reg(CONFIG), Shl(1, PWR_UP))
            /\ PwrUp(Reg(CONFIG)') = 0
    /\ last'.op = "PowerUp"
         => /\ ce' = ce
            /\ Reg(CONFIG)' = BitOr(Reg(CONFIG), Shl(1, PWR_UP))
            /\ PwrUp(Reg(CONFIG)') = 1
    /\ ce' <= ce

\* C21 as stated: after PowerDown chip-enable is low and PWR_UP clear; after
\* PowerUp from there PWR_UP is set and chip-enable still low; both keep the
\* other CONFIG bits; no other operation at all changes PWR_UP or raises
\* chip-enable
C21_NoOtherCallChangesPower ==
    [][/\ PowerCalls
       /\ last'.op \notin {"PowerDown", "PowerUp"}
            => PwrUp(Reg(CONFIG)') = PwrUp(Reg(CONFIG))]_vars

\* C21: after PowerDown chip-enable is low and PWR_UP clear; after PowerUp
\* from there PWR_UP is set and chip-enable still low; both keep the other
\* CONFIG bits; no call raises chip-enable, and no call other than these two
\* and a raw register write changes PWR_UP
C21_PowerStateMachine ==
    [][/\ PowerCalls
       /\ last'.op \notin {"PowerDown", "PowerUp"} \cup RawWrites
            => PwrUp(Reg(CONFIG)') = PwrUp(Reg(CONFIG))]_vars

\* PowerDown from chip-enable high, then PowerUp: Standby with the interrupt
\* masks and PRIM_RX of CONFIG kept
C21_Witness ==
    /\ IsCall(last, "PowerUp", <<>>)
    /\ calls = 2
    /\ ce = 0
    /\ Reg(CONFIG) = 115
    /\ log = Frame(<<R_REGISTER + CONFIG, NOOP>>) \o Frame(<<W_REGISTER + CONFIG, 115>>)

(***************************************************************************)
(* Auto-ack on the chip and in the cache.                                  *)
(***************************************************************************)
\* C22: from DYNPD = 0, after any run of SetDynamicPayload, SetAutoAck,
\* SetAckPayload and EnableCompatMode, every pipe whose DYNPD bit is set has
\* its EN_AA bit set.
C22_DynamicPayloadHasAutoAck ==
    \A p \in 0..5 : Bit(Reg(DYNPD), p) = 1 => Bit(Reg(EN_AA), p) = 1

\* C23: from EN_AA = 0 and an empty cache, after every call of a run of the
\* configuration operations, EnableCompatMode among them, the cached auto-ack
\* bitmap is the low six bits of EN_AA.
C23_CacheMirrorsAutoAck == d.autoAckEnabled = BitAnd(Reg(EN_AA), EN_AA_MASK)

(***************************************************************************)
(* The lost packets counter and the two fields of SETUP_RETR.              *)
(***************************************************************************)
\* C24: after Configure and any number of SetChannel calls,
\* ResetLostPacketsCounter leaves RF_CH as it was just before the call.
C24_ResetKeepsChannel ==
    [][last'.op = "ResetLostPacketsCounter" => Reg(RF_CH)' = Reg(RF_CH)]_vars

\* the register with retry count c and retry delay t
RetryRegister(c, t) == BitOr(Shl(t, ARD), Shl(c, ARC))

\* C25: SetMaxRetries changes the retry-count field of SETUP_RETR only and
\* SetRetryDelay the retry-delay field only; after SetMaxRetries(a) and
\* SetRetryDelay(b), in either order, the register holds min(a, 15) as the
\* count and min(b, 15) as the delay.
C25_RetryFieldsIndependent ==
    [][/\ last'.op = "SetMaxRetries"
            => /\ HighNibble(Reg(SETUP_RETR)') = HighNibble(Reg(SETUP_RETR))
               /\ LowNibble(Reg(SETUP_RETR)') = MinInt(last'.args[1], 15)
               /\ last.op = "SetRetryDelay"
                    => Reg(SETUP_RETR)' = RetryRegister(MinInt(last'.args[1], 15),
                                                        MinInt(last.args[1], 15))
       /\ last'.op = "SetRetryDelay"
            => /\ LowNibble(Reg(SETUP_RETR)') = LowNibble(Reg(SETUP_RETR))
               /\ HighNibble(Reg(SETUP_RETR)') = MinInt(last'.args[1], 15)
               /\ last.op = "SetMaxRetries"
                    => Reg(SETUP_RETR)' = RetryRegister(MinInt(last.args[1], 15),
                                                        MinInt(last'.args[1], 15))
       /\ last'.op \in {"SetMaxRetries", "SetRetryDelay"}
            => regs' = [regs EXCEPT ![SETUP_RETR] = regs'[SETUP_RETR]]]_vars

\* SetMaxRetries(9), then SetRetryDelay(255): count 9 kept, delay 15
C25_Witness ==
    /\ IsCall(last, "SetRetryDelay", <<255>>)
    /\ calls = 2
    /\ Reg(SETUP_RETR) = RetryRegister(9, 15)
    /\ log = Frame(<<R_REGISTER + SETUP_RETR, NOOP>>)
                \o Frame(<<W_REGISTER + SETUP_RETR, RetryRegister(9, 15)>>)

=========================================================================
